---- MODULE Spec2Model ----
(***************************************************************************)
(* createProject.py: create_structure walks a table (directory -> files)   *)
(* and creates every missing directory and every missing file, empty.      *)
(*                                                                         *)
(* A path is the sequence of its components below the base directory "."   *)
(* ("store/slices" is <<"store", "slices">>, the base directory is <<>>).  *)
(* The filesystem holds directories and regular files; symbolic links are  *)
(* not modelled.                                                           *)
(***************************************************************************)
EXTENDS Naturals, Sequences, FiniteSets

(***************************************************************************)
(* The table, in declaration order (a Python dict keeps insertion order).  *)
(***************************************************************************)
directories ==
  << [dir |-> <<"public", "fonts">>,   files |-> << >>],
     [dir |-> <<"public", "icons">>,   files |-> << >>],
     [dir |-> <<"public", "presets">>, files |-> << >>],
     [dir |-> <<"app", "api", "export">>,  files |-> <<"route.ts">>],
     [dir |-> <<"app", "api", "presets">>, files |-> <<"route.ts">>],
     [dir |-> <<"components", "ui">>,
      files |-> <<"Button.tsx", "Slider.tsx", "Knob.tsx", "Switch.tsx",
                  "Card.tsx", "Modal.tsx", "Tabs.tsx", "Dropdown.tsx",
                  "Tooltip.tsx">>],
     [dir |-> <<"components", "layout">>,
      files |-> <<"Header.tsx", "Footer.tsx", "Sidebar.tsx">>],
     [dir |-> <<"components", "audio">>,
      files |-> <<"SoundGrid.tsx", "SoundCard.tsx", "Timeline.tsx",
                  "Track.tsx", "TrackControls.tsx", "TimelineControls.tsx",
                  "Waveform.tsx", "Spectrum.tsx">>],
     [dir |-> <<"components", "modals">>,
      files |-> <<"SoundEditor.tsx", "ExportModal.tsx", "PresetModal.tsx">>],
     [dir |-> <<"components", "controls">>,
      files |-> <<"VolumeControl.tsx", "PanControl.tsx", "PitchControl.tsx",
                  "FilterControls.tsx", "EnvelopeControls.tsx",
                  "LFOControls.tsx", "EffectsControls.tsx", "EQControls.tsx",
                  "DynamicsControls.tsx", "SpatialControls.tsx">>],
     [dir |-> <<"lib", "audio">>,
      files |-> <<"audioContext.ts", "generators.ts", "processors.ts",
                  "effects.ts", "exporters.ts">>],
     [dir |-> <<"lib", "hooks">>,
      files |-> <<"useAudioNode.ts", "useTimeline.ts", "usePresets.ts",
                  "useDragResize.ts">>],
     [dir |-> <<"lib", "utils">>,
      files |-> <<"animations.ts", "storage.ts", "format.ts">>],
     [dir |-> <<"types">>, files |-> <<"audio.ts", "preset.ts", "ui.ts">>],
     [dir |-> <<"store">>, files |-> <<"index.ts">>],
     [dir |-> <<"store", "slices">>,
      files |-> <<"timelineSlice.ts", "soundsSlice.ts", "uiSlice.ts">>] >>

\* base_dir = ".": the directory every path is relative to.
base_dir == << >>

\* os.path.join(a, b) on relative paths: the components of a, then those of b.
Join(a, b) == a \o b

\* Line 44: full_dir_path of an entry.
FullDirPath(e) == Join(base_dir, e.dir)

\* A file joined to the base directory instead of to its own directory.
FilePathInBase(e, k) == Join(base_dir, <<e.files[k]>>)

\* Line 50: file_path of the k-th file of an entry.
FilePath(e, k) == Join(FullDirPath(e), <<e.files[k]>>)

Parent(p) == SubSeq(p, 1, Len(p) - 1)
Ancestors(p) == { SubSeq(p, 1, k) : k \in 1..(Len(p) - 1) }

Entries == 1..Len(directories)
TableDirs == { FullDirPath(directories[i]) : i \in Entries }
TableFiles ==
  UNION { { FilePath(directories[i], k) : k \in 1..Len(directories[i].files) }
          : i \in Entries }
TableAncestors == UNION { Ancestors(d) : d \in TableDirs }

(***************************************************************************)
(* Paths the table does not name: a file beside the table's files and a    *)
(* file in the base directory.  They let a stray write show.               *)
(***************************************************************************)
Foreign == { <<"components", "ui", "Extra.tsx">>, <<"README.md">> }

CreatableDirs == TableDirs \cup TableAncestors

Universe == TableDirs \cup TableFiles \cup TableAncestors \cup Foreign

(***************************************************************************)
(* The filesystem: each path is absent, a directory, an empty regular file *)
(* or a regular file with content.                                         *)
(***************************************************************************)
Kinds == {"absent", "dir", "empty", "data"}

\* os.path.exists: true of an entry of any kind; the base directory exists.
Exists(f, p) == p = base_dir \/ f[p] # "absent"

IsDir(f, p) == p = base_dir \/ f[p] = "dir"

ParentOf == [p \in Universe |-> Parent(p)]

\* Every entry lies in a directory.
WellFormed(f) ==
  \A p \in Universe : f[p] # "absent" => IsDir(f, ParentOf[p])

\* mkdir(2) of one directory.
Mkdir(f, p) ==
  IF ~Exists(f, Parent(p)) THEN [fs |-> f, err |-> "ENOENT"]
  ELSE IF ~IsDir(f, Parent(p)) THEN [fs |-> f, err |-> "ENOTDIR"]
  ELSE IF Exists(f, p) THEN [fs |-> f, err |-> "EEXIST"]
  ELSE [fs |-> [f EXCEPT ![p] = "dir"], err |-> "ok"]

(***************************************************************************)
(* os.makedirs(p) with exist_ok false: the missing parents first (a parent *)
(* that turns out to exist is passed over), then the leaf, whose error     *)
(* propagates.  n is the number of mkdir calls the environment lets        *)
(* succeed before it refuses one (no space, no permission): n >= Len(p)    *)
(* refuses none.  What was created before an error stays.                  *)
(***************************************************************************)
RECURSIVE Makedirs(_, _, _)
Makedirs(f, p, n) ==
  LET head == Parent(p)
      r == IF head # base_dir /\ ~Exists(f, head)
             THEN Makedirs(f, head, n)
             ELSE [fs |-> f, err |-> "ok", n |-> n]
  IN  IF r.err \notin {"ok", "EEXIST"} THEN r
      ELSE IF r.n = 0 THEN [fs |-> r.fs, err |-> "ENOSPC", n |-> 0]
      ELSE LET m == Mkdir(r.fs, p)
           IN  [fs |-> m.fs, err |-> m.err, n |-> r.n - 1]

(***************************************************************************)
(* open(p, 'w') followed by close: creates p empty, or truncates the       *)
(* regular file that is there.  env is whether the environment lets a      *)
(* creation succeed.                                                       *)
(***************************************************************************)
OpenW(f, p, env) ==
  IF ~Exists(f, Parent(p)) THEN [fs |-> f, err |-> "ENOENT"]
  ELSE IF ~IsDir(f, Parent(p)) THEN [fs |-> f, err |-> "ENOTDIR"]
  ELSE IF f[p] = "dir" THEN [fs |-> f, err |-> "EISDIR"]
  ELSE IF f[p] = "absent" /\ ~env THEN [fs |-> f, err |-> "ENOSPC"]
  ELSE [fs |-> [f EXCEPT ![p] = "empty"], err |-> "ok"]

(***************************************************************************)
(* Bounds of the model.                                                    *)
(***************************************************************************)
\* Entries that exist before the first run (their parents exist with them).
MaxPre == 2
\* The same, for the runs in a permuted order and the concurrent runs.
MaxPreWide == 1
\* Runs of the script, one after the other, against the same base directory.
MaxRuns == 2
\* Entries of the table that two concurrent runs walk (a prefix of it).
ConcEntries == 5

\* The paths an initial filesystem may hold, one of each role.
SeedPaths ==
  { <<"public", "fonts">>,                  \* a directory with no files
    <<"app">>,                              \* a parent of table directories
    <<"components", "ui", "Button.tsx">>,   \* a file of the table
    <<"components", "ui", "Extra.tsx">>,    \* a file beside them
    <<"store">>,                            \* a directory holding another
    <<"store", "slices">>,
    <<"store", "index.ts">> }

Procs == {1, 2}

VARIABLES
  fs,      \* the filesystem below the base directory: Universe -> Kinds
  fs0,     \* the filesystem when the current run started
  order,   \* the order in which the table's entries are walked
  pc,      \* per process: entry i of order, step j of it, check or act
  status,  \* per process: "idle", "running", "done", "failed"
  log,     \* per process: the lines printed by the current run
  calls,   \* per process: the creating system calls of the current run
  run      \* the number of the current run

vars == <<fs, fs0, order, pc, status, log, calls, run>>

(***************************************************************************)
(* The steps of one entry, lines 44-54: the directory, then each file in   *)
(* list order.                                                             *)
(***************************************************************************)
\* The files of an entry before its directory.
ProgramFilesFirst(e) ==
  [k \in 1..Len(e.files) |-> [op |-> "file", path |-> FilePath(e, k)]] \o
  <<[op |-> "dir", path |-> FullDirPath(e)]>>

Program(e) ==
  <<[op |-> "dir", path |-> FullDirPath(e)]>> \o
  [k \in 1..Len(e.files) |-> [op |-> "file", path |-> FilePath(e, k)]]

EntryAt(ord, i) == directories[ord[i]]
StepAt(ord, p) == Program(EntryAt(ord, p.i))[p.j]

Start == [i |-> 1, j |-> 1, ph |-> "check"]

\* The next step of the two nested loops.
Advance(ord, p) ==
  IF p.j < Len(Program(EntryAt(ord, p.i)))
    THEN [i |-> p.i, j |-> p.j + 1, ph |-> "check"]
    ELSE [i |-> p.i + 1, j |-> 1, ph |-> "check"]

\* An existing directory ends its entry: its files are passed over.
AfterDirExistsContinue(ord, p) == [i |-> p.i + 1, j |-> 1, ph |-> "check"]

\* Line 45 when the directory exists: on to the entry's files (line 49).
AfterDirExists(ord, p) == Advance(ord, p)

\* A run that makes every directory, whether it exists or not.
DirMissingAlways(f, p) == TRUE

\* The test of line 45.
DirMissing(f, p) == ~Exists(f, p)

\* A run that opens every file, whether it exists or not.
FileMissingAlways(f, p) == TRUE

\* The test of line 51.
FileMissing(f, p) == ~Exists(f, p)

\* An exception that is caught and dropped: the walk goes on.
PropagateSwallowed(err) == "running"

\* An exception nothing catches ends the run (lines 46, 52, 59).
Propagate(err) == IF err = "ok" THEN "running" ELSE "failed"

\* Line 47: "Created directory: {directory}".
DirLine(p) == [kind |-> "dir", path |-> p]

\* The line of a file without its directory.
FileLineNameOnly(p) == [kind |-> "file", path |-> <<p[Len(p)]>>]

\* Line 54: "Created file: {directory}/{file}".
FileLine(p) == [kind |-> "file", path |-> p]

\* Line 56: "Successfully extended project structure."
SummaryLine == [kind |-> "summary", path |-> << >>]

AtStep(self, op, ph) ==
  /\ status[self] = "running"
  /\ pc[self].i <= Len(order)
  /\ pc[self].ph = ph
  /\ StepAt(order, pc[self]).op = op

\* Line 45: if not os.path.exists(full_dir_path)
CheckDir(self) ==
  /\ AtStep(self, "dir", "check")
  /\ pc' = [pc EXCEPT ![self] =
              IF DirMissing(fs, StepAt(order, @).path)
                THEN [@ EXCEPT !.ph = "act"]
                ELSE AfterDirExists(order, @)]
  /\ UNCHANGED <<fs, fs0, order, status, log, calls, run>>

\* Lines 46-47: os.makedirs(full_dir_path), then the line for the directory.
\* After an error the run is over and pc is read no more.
MakeDir(self) ==
  /\ AtStep(self, "dir", "act")
  /\ LET p == StepAt(order, pc[self]).path
     IN  \E n \in 0..Len(p) :
           LET r == Makedirs(fs, p, n)
           IN  /\ fs' = r.fs
               /\ calls' = [calls EXCEPT ![self] =
                    Append(@, [op |-> "makedirs", path |-> p, err |-> r.err])]
               /\ status' = [status EXCEPT ![self] = Propagate(r.err)]
               /\ log' = [log EXCEPT ![self] =
                    IF r.err = "ok" THEN Append(@, DirLine(p)) ELSE @]
  /\ pc' = [pc EXCEPT ![self] = Advance(order, @)]
  /\ UNCHANGED <<fs0, order, run>>

\* Line 51: if not os.path.exists(file_path)
CheckFile(self) ==
  /\ AtStep(self, "file", "check")
  /\ pc' = [pc EXCEPT ![self] =
              IF FileMissing(fs, StepAt(order, @).path)
                THEN [@ EXCEPT !.ph = "act"]
                ELSE Advance(order, @)]
  /\ UNCHANGED <<fs, fs0, order, status, log, calls, run>>

\* Lines 52-54: open(file_path, 'w'), close, then the line for the file.
OpenFile(self) ==
  /\ AtStep(self, "file", "act")
  /\ LET p == StepAt(order, pc[self]).path
     IN  \E env \in BOOLEAN :
           LET r == OpenW(fs, p, env)
           IN  /\ fs' = r.fs
               /\ calls' = [calls EXCEPT ![self] =
                    Append(@, [op |-> "open", path |-> p, err |-> r.err])]
               /\ status' = [status EXCEPT ![self] = Propagate(r.err)]
               /\ log' = [log EXCEPT ![self] =
                    IF r.err = "ok" THEN Append(@, FileLine(p)) ELSE @]
  /\ pc' = [pc EXCEPT ![self] = Advance(order, @)]
  /\ UNCHANGED <<fs0, order, run>>

\* Line 56, after the loop: the summary line; the run ends with success.
Finish(self) ==
  /\ status[self] = "running"
  /\ pc[self].i = Len(order) + 1
  /\ log' = [log EXCEPT ![self] = Append(@, SummaryLine)]
  /\ status' = [status EXCEPT ![self] = "done"]
  /\ UNCHANGED <<fs, fs0, order, pc, calls, run>>

\* Lines 58-59: the script is run again after a run that succeeded.
Rerun ==
  /\ status[1] = "done"
  /\ run < MaxRuns
  /\ run' = run + 1
  /\ fs0' = fs
  /\ pc' = [pc EXCEPT ![1] = Start]
  /\ status' = [status EXCEPT ![1] = "running"]
  /\ log' = [log EXCEPT ![1] = << >>]
  /\ calls' = [calls EXCEPT ![1] = << >>]
  /\ UNCHANGED <<fs, order>>

Step(self) ==
  \/ CheckDir(self)
  \/ MakeDir(self)
  \/ CheckFile(self)
  \/ OpenFile(self)
  \/ Finish(self)

(***************************************************************************)
(* Initial filesystems: up to MaxPre of the SeedPaths exist, each as a     *)
(* directory, an empty file or a file with content, inside directories.    *)
(***************************************************************************)
SeedFs(S, k) ==
  [p \in Universe |->
     IF p \in S THEN k[p]
     ELSE IF \E q \in S : p \in Ancestors(q) THEN "dir"
     ELSE "absent"]

InitFs(max) ==
  \E S \in SUBSET SeedPaths :
    /\ Cardinality(S) <= max
    /\ \E k \in [S -> {"dir", "empty", "data"}] :
         /\ \A p, q \in S : p \in Ancestors(q) => k[p] = "dir"
         /\ fs = SeedFs(S, k)

Canonical == [i \in Entries |-> i]

InitRun(running) ==
  /\ fs0 = fs
  /\ pc = [self \in Procs |-> Start]
  /\ status = [self \in Procs |-> IF self \in running THEN "running" ELSE "idle"]
  /\ log = [self \in Procs |-> << >>]
  /\ calls = [self \in Procs |-> << >>]
  /\ run = 1

\* One process walks the table in declaration order, MaxRuns times.
Init ==
  /\ InitFs(MaxPre)
  /\ order = Canonical
  /\ InitRun({1})

Next == Step(1) \/ Rerun

Spec == Init /\ [][Next]_vars

(***************************************************************************)
(* One run from filesystem f over the entries in order ord when the        *)
(* environment refuses nothing: the filesystem it leaves and whether it    *)
(* reached line 56.                                                        *)
(***************************************************************************)
RECURSIVE WalkFrom(_, _, _)
WalkFrom(f, ord, p) ==
  IF p.i > Len(ord) THEN [fs |-> f, ok |-> TRUE]
  ELSE
    LET s == StepAt(ord, p)
        missing == IF s.op = "dir" THEN DirMissing(f, s.path)
                                   ELSE FileMissing(f, s.path)
        r == IF s.op = "dir" THEN Makedirs(f, s.path, Len(s.path))
                             ELSE OpenW(f, s.path, TRUE)
    IN  IF ~missing
          THEN WalkFrom(f, ord, IF s.op = "dir" THEN AfterDirExists(ord, p)
                                                ELSE Advance(ord, p))
          ELSE IF Propagate(r.err) = "running"
                 THEN WalkFrom(r.fs, ord, Advance(ord, p))
                 ELSE [fs |-> r.fs, ok |-> FALSE]

Walk(f, ord) == WalkFrom(f, ord, Start)

(***************************************************************************)
(* The table walked in another order: two neighbours swapped, the last     *)
(* entry first, or the whole table reversed.                               *)
(***************************************************************************)
Swap(a, b) ==
  [i \in Entries |-> IF i = a THEN b ELSE IF i = b THEN a ELSE i]
Reversed == [i \in Entries |-> Len(directories) + 1 - i]
LastFirst == [i \in Entries |-> IF i = 1 THEN Len(directories) ELSE i - 1]

Perms ==
  { Swap(3, 4),      \* public/presets after app/api/export
    Swap(4, 5),      \* the two directories below app/api
    Swap(15, 16),    \* store/slices before its parent store
    LastFirst,
    Reversed }

InitPerm ==
  /\ InitFs(MaxPreWide)
  /\ order \in Perms
  /\ InitRun({1})

SpecPerm == InitPerm /\ [][Next]_vars

(***************************************************************************)
(* Two runs at once against the same base directory, their steps           *)
(* interleaved; each walks the first ConcEntries entries of the table.     *)
(***************************************************************************)
InitConc ==
  /\ InitFs(MaxPreWide)
  /\ order = [i \in 1..ConcEntries |-> i]
  /\ InitRun(Procs)

NextConc == \E self \in Procs : Step(self)

SpecConc == InitConc /\ [][NextConc]_vars

(***************************************************************************)
(* Properties.  Those of a single run speak of process 1.                  *)
(***************************************************************************)
Terminated(self) == status[self] \in {"done", "failed"}

\* The other files the table lists in the directory of p.
Siblings(p) == { q \in TableFiles : Parent(q) = Parent(p) /\ q # p }

CallsOf(self) == { calls[self][k] : k \in 1..Len(calls[self]) }
LinesOf(self) == { log[self][k] : k \in 1..Len(log[self]) }

\* The environment refused no call of the run: every error the run met
\* comes from what is on disk.
NoRefusal(self) == \A c \in CallsOf(self) : c.err # "ENOSPC"

\* A table file that held content when the run started.
HeldContent(p) == p \in TableFiles /\ fs0[p] = "data"

(***************************************************************************)
(* C1 as stated: whenever a run has ended, the environment having refused  *)
(* nothing, every table file that held content when it started still holds *)
(* it, and every sibling of such a file that was missing has been created  *)
(* empty.                                                                  *)
(***************************************************************************)
C1_EveryRunCreatesSiblings ==
  (Terminated(1) /\ NoRefusal(1)) =>
    \A p \in TableFiles : HeldContent(p) =>
      /\ fs[p] = "data"
      /\ \A q \in Siblings(p) : fs0[q] = "absent" => fs[q] = "empty"

(***************************************************************************)
(* C1, amended: in every state of a run, a table file that held content    *)
(* when the run started still holds it and no open for writing was issued  *)
(* on it; and when the run ends with success, every sibling of it that was *)
(* missing has been created empty.                                         *)
(***************************************************************************)
C1_NonDestructive ==
  \A p \in TableFiles : HeldContent(p) =>
    /\ fs[p] = "data"
    /\ \A c \in CallsOf(1) : c.path # p
    /\ status[1] = "done" =>
         \A q \in Siblings(p) : fs0[q] = "absent" => fs[q] = "empty"

\* Scenario 3: Button.tsx held content, the run succeeded and created Slider.tsx.
C1_Witness ==
  /\ run = 1
  /\ status[1] = "done"
  /\ fs0[<<"components", "ui", "Button.tsx">>] = "data"
  /\ fs[<<"components", "ui", "Button.tsx">>] = "data"
  /\ fs0[<<"components", "ui", "Slider.tsx">>] = "absent"
  /\ fs[<<"components", "ui", "Slider.tsx">>] = "empty"

(***************************************************************************)
(* C2: a run that follows a successful run changes nothing on disk, issues *)
(* no creating call, cannot fail or stop before its end, and prints        *)
(* nothing but the summary line.                                           *)
(***************************************************************************)
C2_Idempotent ==
  run >= 2 =>
    /\ fs = fs0
    /\ calls[1] = << >>
    /\ status[1] # "failed"
    /\ LinesOf(1) \subseteq {SummaryLine}
    /\ status[1] = "done" => log[1] = <<SummaryLine>>
    /\ status[1] = "running" => ENABLED Step(1)

\* The second run has ended, after a first run that created files.
C2_Witness ==
  /\ run = 2
  /\ status[1] = "done"
  /\ fs[<<"store", "index.ts">>] = "empty"
  /\ fs[<<"README.md">>] = "absent"

(***************************************************************************)
(* C3: whenever a run ends with success, every directory of the table is a *)
(* directory and every file of the table exists, empty when this run       *)
(* created it.                                                             *)
(***************************************************************************)
C3_Complete ==
  status[1] = "done" =>
    /\ \A d \in TableDirs : fs[d] = "dir"
    /\ \A p \in TableFiles :
         /\ fs[p] # "absent"
         /\ fs0[p] = "absent" => fs[p] = "empty"

(***************************************************************************)
(* C9: in every state of a run, what existed when the run started is as it *)
(* was, and what has appeared is a directory of the table, a parent of     *)
(* one, or an empty file of the table, each inside a directory.            *)
(***************************************************************************)
C9_MonotoneFrame ==
  /\ WellFormed(fs)
  /\ \A p \in Universe :
       IF fs0[p] # "absent" THEN fs[p] = fs0[p]
       ELSE \/ fs[p] = "absent"
            \/ fs[p] = "dir" /\ p \in CreatableDirs
            \/ fs[p] = "empty" /\ p \in TableFiles

\* A failed run that had created a parent directory and a file, beside
\* content that was there before.
C9_Witness ==
  /\ status[1] = "failed"
  /\ \E p \in Universe : fs0[p] = "data"
  /\ \E p \in TableAncestors : fs0[p] = "absent" /\ fs[p] = "dir"
  /\ \E p \in TableFiles : fs0[p] = "absent" /\ fs[p] = "empty"

(***************************************************************************)
(* The layout the specification enumerates: each directory with the number *)
(* of files in it.                                                         *)
(***************************************************************************)
Layout ==
  { <<<<"public", "fonts">>, 0>>, <<<<"public", "icons">>, 0>>,
    <<<<"public", "presets">>, 0>>,
    <<<<"app", "api", "export">>, 1>>, <<<<"app", "api", "presets">>, 1>>,
    <<<<"components", "ui">>, 9>>, <<<<"components", "layout">>, 3>>,
    <<<<"components", "audio">>, 8>>, <<<<"components", "modals">>, 3>>,
    <<<<"components", "controls">>, 10>>,
    <<<<"lib", "audio">>, 5>>, <<<<"lib", "hooks">>, 4>>,
    <<<<"lib", "utils">>, 3>>,
    <<<<"types">>, 3>>, <<<<"store">>, 1>>, <<<<"store", "slices">>, 3>> }

LayoutDirs == { l[1] : l \in Layout }
LayoutParents == UNION { Ancestors(d) : d \in LayoutDirs }

FilesIn(d) == { p \in Universe : Parent(p) = d /\ fs[p] \in {"empty", "data"} }

(***************************************************************************)
(* C4: a first run that started from an empty base directory and ended     *)
(* with success leaves exactly the enumerated directories (and the         *)
(* directories they lie in), in each the enumerated number of files, the   *)
(* route and index files among them, every file empty, and nothing else.   *)
(***************************************************************************)
C4_ExactLayout ==
  (/\ status[1] = "done"
   /\ \A p \in Universe : fs0[p] = "absent") =>
    /\ { p \in Universe : fs[p] = "dir" } = LayoutDirs \cup LayoutParents
    /\ \A l \in Layout : Cardinality(FilesIn(l[1])) = l[2]
    /\ \A p \in Universe :
         fs[p] \notin {"absent", "dir"} =>
           fs[p] = "empty" /\ Parent(p) \in LayoutDirs
    /\ fs[<<"app", "api", "export", "route.ts">>] = "empty"
    /\ fs[<<"app", "api", "presets", "route.ts">>] = "empty"
    /\ fs[<<"store", "index.ts">>] = "empty"

\* Scenario 1: the run from an empty base directory has ended with success.
C4_Witness ==
  /\ run = 1
  /\ status[1] = "done"
  /\ \A p \in Universe : fs0[p] = "absent"
  /\ Cardinality(FilesIn(<<"components", "controls">>)) = 10

(***************************************************************************)
(* C5: a creating call that fails is the last call of its run: the run     *)
(* has failed, no later call was issued and the summary line is not        *)
(* printed; whatever an earlier call created, and whatever line reported,  *)
(* is still on disk.                                                       *)
(***************************************************************************)
C5_AbortNoRollback ==
  LET c == calls[1]
  IN  /\ \A k \in 1..Len(c) :
           /\ c[k].err # "ok" => k = Len(c) /\ status[1] = "failed"
           /\ c[k].err = "ok" =>
                fs[c[k].path] = (IF c[k].op = "makedirs" THEN "dir" ELSE "empty")
      /\ status[1] = "failed" =>
           /\ Len(c) > 0
           /\ c[Len(c)].err # "ok"
           /\ \A l \in LinesOf(1) : l.kind # "summary"
      /\ \A l \in LinesOf(1) :
           l.kind # "summary" =>
             fs[l.path] = (IF l.kind = "dir" THEN "dir" ELSE "empty")

\* A makedirs that failed half-way (app made, app/api refused), after three
\* directories had been created and reported.
C5_Witness ==
  /\ status[1] = "failed"
  /\ Len(log[1]) = 3
  /\ fs0[<<"app">>] = "absent"
  /\ fs[<<"app">>] = "dir"
  /\ fs[<<"app", "api">>] = "absent"

(***************************************************************************)
(* The lines of the current run that report the creation of path p.        *)
(***************************************************************************)
CreationLines(p) ==
  { k \in 1..Len(log[1]) : log[1][k].kind # "summary" /\ log[1][k].path = p }

BroughtIntoExistence(p) == fs0[p] = "absent" /\ fs[p] # "absent"

SummaryOnceAndLast ==
  /\ Len(log[1]) > 0
  /\ \A k \in 1..Len(log[1]) : log[1][k].kind = "summary" <=> k = Len(log[1])

LinesMatchKinds ==
  \A k \in 1..Len(log[1]) :
    log[1][k].kind # "summary" =>
      /\ log[1][k].path \in Universe
      /\ log[1][k].kind = (IF fs[log[1][k].path] = "dir" THEN "dir" ELSE "file")

(***************************************************************************)
(* C6 as stated: when a run has ended with success, every directory and    *)
(* every file the run brought into existence has exactly one creation      *)
(* line, nothing else has one, and the summary line is there once, last.   *)
(***************************************************************************)
C6_OneLinePerCreatedPath ==
  status[1] = "done" =>
    /\ \A p \in Universe :
         Cardinality(CreationLines(p)) = (IF BroughtIntoExistence(p) THEN 1 ELSE 0)
    /\ LinesMatchKinds
    /\ SummaryOnceAndLast

(***************************************************************************)
(* C6, amended: when a run has ended with success, every directory of the  *)
(* table and every file of the table that the run brought into existence   *)
(* has exactly one creation line, no other path has one (the parent        *)
(* directories that makedirs creates on the way have none), and the        *)
(* summary line is there once, last; it is in no output before the end.    *)
(***************************************************************************)
C6_OneLinePerCreatedEntry ==
  /\ status[1] = "done" =>
       /\ \A p \in TableDirs \cup TableFiles :
            Cardinality(CreationLines(p)) =
              (IF BroughtIntoExistence(p) THEN 1 ELSE 0)
       /\ \A p \in Universe \ (TableDirs \cup TableFiles) :
            CreationLines(p) = {}
       /\ LinesMatchKinds
       /\ SummaryOnceAndLast
  /\ status[1] # "done" => \A l \in LinesOf(1) : l.kind # "summary"

\* A successful run that made public and app/api on the way, and reported
\* the directories and files of the table it made.
C6_Witness ==
  /\ status[1] = "done"
  /\ BroughtIntoExistence(<<"public">>)
  /\ BroughtIntoExistence(<<"app", "api">>)
  /\ CreationLines(<<"public">>) = {}
  /\ CreationLines(<<"public", "icons">>) # {}
  /\ CreationLines(<<"app", "api", "export", "route.ts">>) # {}
  /\ \E p \in TableFiles : fs0[p] # "absent"

(***************************************************************************)
(* The paths of the table in declaration order: each directory, then its   *)
(* files in list order.                                                    *)
(***************************************************************************)
RECURSIVE DeclaredFrom(_)
DeclaredFrom(i) ==
  IF i > Len(directories) THEN << >>
  ELSE <<directories[i].dir>>
       \o [k \in 1..Len(directories[i].files) |->
             directories[i].dir \o <<directories[i].files[k]>>]
       \o DeclaredFrom(i + 1)

Declared == DeclaredFrom(1)

RankOf ==
  [p \in { Declared[k] : k \in 1..Len(Declared) } |->
     CHOOSE k \in 1..Len(Declared) : Declared[k] = p]

(***************************************************************************)
(* C8: the creating calls of a run are issued in declaration order, a      *)
(* directory before its files, the files in list order; so are the lines;  *)
(* and a file is opened, or about to be, only when the path of its         *)
(* directory exists.                                                       *)
(***************************************************************************)
C8_DeclarationOrder ==
  LET c == calls[1]
      l == log[1]
  IN  /\ \A k \in 1..Len(c) :
           /\ c[k].path \in DOMAIN RankOf
           /\ c[k].op = (IF c[k].path \in TableDirs THEN "makedirs" ELSE "open")
           /\ c[k].op = "open" => Exists(fs, Parent(c[k].path))
           /\ k > 1 => RankOf[c[k - 1].path] < RankOf[c[k].path]
      /\ \A k \in 2..Len(l) :
           l[k].kind # "summary" => RankOf[l[k - 1].path] < RankOf[l[k].path]
      /\ AtStep(1, "file", "act") =>
           Exists(fs, Parent(StepAt(order, pc[1]).path))

\* store/slices was missing and made, and its three files opened after it.
C8_Witness ==
  /\ fs0[<<"store", "slices">>] = "absent"
  /\ Len(calls[1]) >= 4
  /\ \A k \in 0..2 :
       /\ calls[1][Len(calls[1]) - k].op = "open"
       /\ Parent(calls[1][Len(calls[1]) - k].path) = <<"store", "slices">>
  /\ calls[1][Len(calls[1]) - 3] =
       [op |-> "makedirs", path |-> <<"store", "slices">>, err |-> "ok"]

(***************************************************************************)
(* C7 as stated: whenever a run that walks the table in a permuted order   *)
(* has ended, the environment having refused nothing, the filesystem is    *)
(* the one a run in declaration order leaves from the same start.          *)
(***************************************************************************)
C7_SameFinalState ==
  (Terminated(1) /\ NoRefusal(1)) => fs = Walk(fs0, Canonical).fs

(***************************************************************************)
(* C7, amended: a run in a permuted order ends with success exactly when   *)
(* the run in declaration order from the same start does (the environment  *)
(* refusing nothing), and then both leave the same filesystem.             *)
(***************************************************************************)
C7_SameFinalStateOnSuccess ==
  /\ status[1] = "done" => Walk(fs0, Canonical) = [fs |-> fs, ok |-> TRUE]
  /\ (status[1] = "failed" /\ NoRefusal(1)) => ~Walk(fs0, Canonical).ok

\* store/slices walked before store, both missing at the start: the first
\* run has ended with success.
C7_Witness ==
  /\ run = 1
  /\ status[1] = "done"
  /\ order = Swap(15, 16)
  /\ fs0[<<"store">>] = "absent"
  /\ fs[<<"store", "index.ts">>] = "empty"

(***************************************************************************)
(* C10: when two interleaved runs have both ended, from a start where one  *)
(* run alone succeeds and with the environment refusing nothing, both have *)
(* succeeded, no file that held content has lost it, and the filesystem is *)
(* the one a single run leaves.                                            *)
(***************************************************************************)
C10_InterleavedRunsSucceed ==
  (/\ \A self \in Procs : Terminated(self) /\ NoRefusal(self)
   /\ Walk(fs0, order).ok) =>
    /\ \A self \in Procs : status[self] = "done"
    /\ \A p \in Universe : fs0[p] = "data" => fs[p] = "data"
    /\ fs = Walk(fs0, order).fs

====
